---- MODULE Spec2Model ----
(***************************************************************************)
(* Permit workflow service: the request idempotency layer (Redis cache +   *)
(* lock around POST/PATCH handlers), the guarded workflow state machine    *)
(* (canTransition, transitionState, updateSubmission, generate-packet) and *)
(* the packet worker, as state machines over the persisted rows.           *)
(*                                                                         *)
(* Scores are kept in hundredths: completenessScore 1.0 is 100.            *)
(***************************************************************************)
EXTENDS Integers, Sequences, FiniteSets, Bags, TLC

\* ---------------------------------------------------------------- bounds
MaxSent == 3       \* deliveries of the create request (SpecInTtl)
MaxReq == 2        \* deliveries of the create request (Spec);
                   \* workflow requests in flight at a time (SpecWf)
MaxKeys == 2       \* distinct idempotency keys
MaxSubs == 2       \* submissions that can be created
MaxEvents == 2     \* WorkflowEvent rows that can be appended to the initial ones
MaxJobs == 1       \* packet jobs that can be queued or running at once
MaxRules == 2      \* rules of a rule set (SpecScore)
MaxQueued == 2     \* packet jobs accepted for one submission (SpecWorker)
MaxRuleSets == 3   \* rule sets of one jurisdiction (SpecRules)
MaxTime == 2       \* clock readings and effective dates, from 0 (SpecRules)
MaxArea == 20      \* lotArea and imperviousArea, from 0 (SpecCover)
MaxRequired == 201 \* REQUIRED rule results of one evaluation (SpecRound)

\* ------------------------------------------------------------- constants
Keys == 1..MaxKeys
NoKey == 0
FullScore == 100

SubmissionState ==
  {"DRAFT", "VALIDATED", "PACKET_READY", "SUBMITTED", "POLLING", "APPROVED",
   "NEEDS_INFO"}

\* the table with an edge from SUBMITTED to POLLING
TransitionsIntoPolling ==
  [s \in SubmissionState |->
     CASE s = "DRAFT" -> {"VALIDATED"}
       [] s = "VALIDATED" -> {"PACKET_READY"}
       [] s = "PACKET_READY" -> {"SUBMITTED"}
       [] s = "SUBMITTED" -> {"POLLING", "APPROVED", "NEEDS_INFO"}
       [] s = "POLLING" -> {"APPROVED", "NEEDS_INFO"}
       [] s = "APPROVED" -> {}
       [] s = "NEEDS_INFO" -> {"DRAFT"}]

ALLOWED_TRANSITIONS ==
  [s \in SubmissionState |->
     CASE s = "DRAFT" -> {"VALIDATED"}
       [] s = "VALIDATED" -> {"PACKET_READY"}
       [] s = "PACKET_READY" -> {"SUBMITTED"}
       [] s = "SUBMITTED" -> {"APPROVED", "NEEDS_INFO"}
       [] s = "POLLING" -> {"APPROVED", "NEEDS_INFO"}
       [] s = "APPROVED" -> {}
       [] s = "NEEDS_INFO" -> {"DRAFT"}]

canTransitionNoGuard(submission, to) ==
  to \in ALLOWED_TRANSITIONS[submission.state]

canTransition(submission, to) ==
  IF to = "VALIDATED" /\ submission.completenessScore < FullScore
  THEN FALSE
  ELSE to \in ALLOWED_TRANSITIONS[submission.state]

\* ----------------------------------------------------------- rule engine
\* The rule set seeded for jurisdiction "ATX": two REQUIRED boolean-flag rules.
Jurisdictions == {"ATX"}

Fields == {"hasArchitecturalPlans", "hasStructuralCalcs"}

RuleSetOf(code) ==
  << [key |-> "ARCHITECTURAL_PLANS_SUBMITTED", severity |-> "REQUIRED"],
     [key |-> "STRUCTURAL_CALCS_INCLUDED", severity |-> "REQUIRED"] >>

ruleImplementations ==
  [k \in {"ARCHITECTURAL_PLANS_SUBMITTED", "STRUCTURAL_CALCS_INCLUDED"} |->
     IF k = "ARCHITECTURAL_PLANS_SUBMITTED" THEN "hasArchitecturalPlans"
     ELSE "hasStructuralCalcs"]

\* a missing optional flag is falsy
Flag(context, f) == IF f \in DOMAIN context THEN context[f] ELSE FALSE

\* a loop in which a key with no logic function yields a failed result
RECURSIVE evalFromNoSkip(_, _, _)
evalFromNoSkip(context, rules, i) ==
  IF i > Len(rules) THEN << >>
  ELSE << [ruleKey |-> rules[i].key,
           severity |-> rules[i].severity,
           passed |-> IF rules[i].key \in DOMAIN ruleImplementations
                      THEN Flag(context, ruleImplementations[rules[i].key])
                      ELSE FALSE] >>
       \o evalFromNoSkip(context, rules, i + 1)

RECURSIVE evalFrom(_, _, _)
evalFrom(context, rules, i) ==
  IF i > Len(rules) THEN << >>
  ELSE IF rules[i].key \notin DOMAIN ruleImplementations
       THEN evalFrom(context, rules, i + 1)
       ELSE << [ruleKey |-> rules[i].key,
                severity |-> rules[i].severity,
                passed |-> Flag(context, ruleImplementations[rules[i].key])] >>
            \o evalFrom(context, rules, i + 1)

\* the loop of evaluateRules over the rules of the rule set its query found
evaluateRules(context, ruleSet) == evalFrom(context, ruleSet.rules, 1)

\* the RuleSet table as seeded: one rule set of "ATX", in force from the start
SeededRuleSets ==
  {[jurisdictionId |-> "ATX", version |-> 1, effectiveDate |-> 0,
    rules |-> RuleSetOf("ATX")]}

\* Rule sets as the seeds write them: REQUIRED and WARNING rules, some under
\* keys with no logic function ("NYC_ZONING_USE"), no key twice in a set.
RuleKeys ==
  {"ARCHITECTURAL_PLANS_SUBMITTED", "STRUCTURAL_CALCS_INCLUDED",
   "NYC_ZONING_USE"}

RuleSeverity == {"REQUIRED", "WARNING"}

RuleLists ==
  {rules \in UNION {[1..n -> [key : RuleKeys, severity : RuleSeverity]] :
                      n \in 0..MaxRules} :
     \A i, j \in DOMAIN rules : rules[i].key = rules[j].key => i = j}

\* The odd k below 200 for which the double nearest to k/200 is not below
\* k/200: the quotients that lie halfway between two hundredths and that
\* toFixed(2) rounds up (0.125 is 0.13, while 0.995 is 0.99).
TiesRoundedUp ==
  {1, 5, 7, 11, 13, 17, 19, 23, 25, 27, 33, 39, 45, 51, 53, 55, 63, 65, 67, 75,
   77, 79, 81, 89, 91, 93, 101, 103, 105, 107, 109, 111, 125, 127, 129, 131,
   133, 135, 137, 151, 153, 155, 157, 159, 161, 175, 177, 179, 181, 183, 185,
   187}

\* parseFloat((p / n).toFixed(2)) in hundredths, for 0 <= p <= n and n > 0:
\* the hundredth nearest to the double p / n.  Off a tie the double and the
\* fraction round alike.
toFixed2(p, n) ==
  LET q == (100 * p) \div n
      r == (100 * p) % n
  IN  IF 2 * r > n THEN q + 1
      ELSE IF 2 * r < n THEN q
      ELSE IF 2 * q + 1 \in TiesRoundedUp THEN q + 1 ELSE q

\* a score over the results of every severity
completenessScoreAllRules(results) ==
  LET passed == {i \in 1..Len(results) : results[i].passed}
      n == Len(results)
      p == Cardinality(passed)
  IN  IF n > 0 THEN toFixed2(p, n) ELSE FullScore

\* passed REQUIRED results over REQUIRED results, 1 when there is no REQUIRED
\* rule, as it is persisted
completenessScore(results) ==
  LET required == {i \in 1..Len(results) : results[i].severity = "REQUIRED"}
      passed == {i \in required : results[i].passed}
      n == Cardinality(required)
      p == Cardinality(passed)
  IN  IF n > 0 THEN toFixed2(p, n) ELSE FullScore

\* ------------------------------------------------------------------ state
VARIABLES
  req,          \* bag of requests: each with its position and its reply
  cache,        \* Redis idempotency:<key> -> cached response
  lock,         \* Redis lock:idempotency:<key> -> present or not
  lockEnd,      \* history: how the last lock entry of each key went away
  lockOwner,    \* history: rid of the request that wrote the lock entry, or 0
  subs,         \* PermitSubmission rows, id = index
  events,       \* WorkflowEvent rows in creation order
  packets,      \* Packet rows: the bag of their submission ids
  jobs,         \* bag of packet-generation jobs, waiting or being processed
  stateWrites,  \* history: per submission, the number of writes of its state
  overlap,      \* history: pairs of same-key requests that were in flight together
  seeded,       \* history: the number of WorkflowEvent rows in the initial state
  asked,        \* the last call of canTransition made on its own, with its result
  reply,        \* the response this step sent to a request under a key of its own
  answers,      \* history: the responses to requests on an id that is another
                \* organization's or nobody's
  ruleSets,     \* RuleSet rows, each with its rules
  now,          \* the clock that new Date() reads
  evald         \* the outcome of the call of evaluateRules this step made on its own

vars ==
  << req, cache, lock, lockEnd, lockOwner, subs, events, packets, jobs,
     stateWrites, overlap, seeded, asked, reply, answers, ruleSets, now, evald >>

redisVars == << cache, lock, lockEnd, lockOwner >>
dbVars == << subs, events, packets, stateWrites >>
histVars == << overlap, seeded, asked >>
ruleVars == << ruleSets, now, evald >>

\* prisma.ruleSet.findFirst({ where: { jurisdictionId, effectiveDate: { lte:
\* new Date() } }, orderBy: { effectiveDate: "desc" } }): the rows the query
\* can return.  Rows of one effectiveDate come in no defined order.
findFirst(code) ==
  LET inForce == {rs \in ruleSets :
                   rs.jurisdictionId = code /\ rs.effectiveDate <= now}
  IN  {rs \in inForce : \A o \in inForce : o.effectiveDate <= rs.effectiveDate}

EmptyData == [f \in {} |-> TRUE]
AllTrue == [f \in Fields |-> TRUE]
MissingCalcs == [f \in Fields |-> f = "hasArchitecturalPlans"]

NoBody == [kind |-> "none", id |-> 0, state |-> "", score |-> 0]
NoResp == [statusCode |-> 0, body |-> NoBody]
NoReply == [op |-> "none", org |-> "", statusCode |-> 0, body |-> NoBody]
NoAsk == [to |-> "", result |-> FALSE]
NoEval ==
  [status |-> "none", context |-> EmptyData, version |-> 0, results |-> << >>]

ErrorBody(tag) == [kind |-> tag, id |-> 0, state |-> "", score |-> 0]
RowBody(kind, id, state, score) ==
  [kind |-> kind, id |-> id, state |-> state, score |-> score]

\* rid tells the requests of Spec apart, and after holds the requests under
\* the same key that had completed with a 2xx response when this one was sent;
\* the requests of SpecWf carry rid 0 and no such set.  storeError records
\* that a Redis command of this request was rejected.
NewReq(rid, after, op, key, org, id, target, code, data) ==
  [rid |-> rid, after |-> after, op |-> op, key |-> key, org |-> org, id |-> id,
   target |-> target, code |-> code, data |-> data,
   pc |-> IF key = NoKey THEN "handler" ELSE "get", lockKey |-> FALSE,
   from |-> "", snap |-> EmptyData, statusCode |-> 0, body |-> NoBody,
   ran |-> FALSE, storeError |-> FALSE]

Put(bag, x) == bag (+) SetToBag({x})
Take(bag, x) == bag (-) SetToBag({x})
Requests == BagToSet(req)
JobsNow == BagToSet(jobs)

Init ==
  /\ req = EmptyBag
  /\ cache = [k \in Keys |-> NoResp]
  /\ lock = [k \in Keys |-> FALSE]
  /\ lockEnd = [k \in Keys |-> "none"]
  /\ lockOwner = [k \in Keys |-> 0]
  /\ subs = << >>
  /\ events = << >>
  /\ packets = EmptyBag
  /\ jobs = EmptyBag
  /\ stateWrites = << >>
  /\ overlap = {}
  /\ seeded = 0
  /\ asked = NoAsk
  /\ reply = NoReply
  /\ answers = {}
  /\ ruleSets = SeededRuleSets
  /\ now = 0
  /\ evald = NoEval

InFlight(rq) == rq.pc # "done"
Is2xx(code) == code >= 200 /\ code < 300

Replied(rq, code, body) ==
  [rq EXCEPT !.statusCode = code, !.body = body, !.pc = "send", !.ran = TRUE]

\* The handler replies to request rq (in the bag iff in).  A request under a
\* key of its own leaves nothing in Redis: its reply and its onSend hook are
\* one step, and the request is over.
Rest(in, rq) == IF in THEN Take(req, rq) ELSE req

\* whose row the id of rq names: the requester's, another organization's, nobody's
Owner(rq) ==
  IF rq.id \notin 1..Len(subs) THEN "absent"
  ELSE IF subs[rq.id].organizationId = rq.org THEN "own" ELSE "foreign"

Respond(in, rq, code, body) ==
  /\ req' = IF rq.key = NoKey THEN Rest(in, rq)
            ELSE Put(Rest(in, rq), Replied(rq, code, body))
  /\ reply' = IF rq.key = NoKey
              THEN [op |-> rq.op, org |-> rq.org, statusCode |-> code,
                    body |-> body]
              ELSE NoReply
  /\ answers' = IF rq.op # "create" /\ Owner(rq) # "own"
                THEN answers \cup {[op |-> rq.op, id |-> Owner(rq),
                                     statusCode |-> code, body |-> body]}
                ELSE answers

\* The handler of rq goes on as rec
Continue(in, rq, rec) ==
  /\ req' = Put(Rest(in, rq), rec)
  /\ reply' = NoReply
  /\ UNCHANGED answers

\* a lookup by id alone
FoundAnyOrg(id, org) == id \in 1..Len(subs)

\* findFirst({ where: { id, organizationId } })
Found(id, org) == id \in 1..Len(subs) /\ subs[id].organizationId = org

\* GET /submissions/:id: findOneForUser, 404 when it finds nothing
HGetOn(in, rq) ==
  /\ IF ~Found(rq.id, rq.org)
     THEN Respond(in, rq, 404, ErrorBody("Submission not found"))
     ELSE Respond(in, rq, 200,
            RowBody("submission", rq.id, subs[rq.id].state,
                    subs[rq.id].completenessScore))
  /\ UNCHANGED << redisVars, dbVars, jobs, histVars, ruleVars >>

\* --------------------------------------------------------------- requests
\* A request that passed authentication and schema validation enters the
\* preHandler hook.
CreatePayloads ==
  {[code |-> "ATX", data |-> AllTrue], [code |-> "ATX", data |-> MissingCalcs],
   [code |-> "BAD", data |-> AllTrue]}

\* duplicate deliveries of POST /submissions, n at most
SendCreate(n, k, p) ==
  LET rid == BagCardinality(req) + 1
  IN  /\ BagCardinality(req) < n
      /\ req' = Put(req,
           NewReq(rid,
                  {x.rid : x \in {y \in Requests :
                     y.key = k /\ y.pc = "done" /\ Is2xx(y.statusCode)}},
                  "create", k, "orgA", 0, "", p.code, p.data))
      /\ overlap' = overlap \cup
           {{rid, q.rid} : q \in {x \in Requests : InFlight(x) /\ x.key = k}}
      /\ UNCHANGED << redisVars, dbVars, jobs, seeded, asked, reply, answers,
                     ruleVars >>

\* ------------------------------------------------- idempotencyHooks.check
\* redis.get(redisKey): a hit replays the cached response
CheckGet(rq) ==
  /\ rq.pc = "get"
  /\ IF cache[rq.key] # NoResp
     THEN req' = Put(Take(req, rq),
                     [rq EXCEPT !.statusCode = cache[rq.key].statusCode,
                                !.body = cache[rq.key].body, !.pc = "send"])
     ELSE req' = Put(Take(req, rq), [rq EXCEPT !.pc = "lock"])
  /\ UNCHANGED << redisVars, dbVars, jobs, histVars, ruleVars, reply, answers >>

\* redis.set(lockKey, "LOCKED", "EX", LOCK_TTL_SECONDS, "NX")
CheckLock(rq) ==
  /\ rq.pc = "lock"
  /\ IF ~lock[rq.key]
     THEN /\ lock' = [lock EXCEPT ![rq.key] = TRUE]
          /\ lockEnd' = [lockEnd EXCEPT ![rq.key] = "none"]
          /\ lockOwner' = [lockOwner EXCEPT ![rq.key] = rq.rid]
          /\ req' = Put(Take(req, rq),
                        [rq EXCEPT !.lockKey = TRUE, !.pc = "handler"])
     ELSE /\ req' = Put(Take(req, rq),
                        [rq EXCEPT !.statusCode = 409,
                                   !.body = ErrorBody("Processing..."),
                                   !.pc = "send"])
          /\ UNCHANGED << lock, lockEnd, lockOwner >>
  /\ UNCHANGED << cache, dbVars, jobs, histVars, ruleVars, reply, answers >>

\* a lock entry written without EX: the TTL elapses and the entry stays
LockNeverExpires(k) ==
  /\ lock[k]
  /\ lockEnd' = [lockEnd EXCEPT ![k] = "ttl"]
  /\ UNCHANGED << req, cache, lock, lockOwner, dbVars, jobs, histVars, ruleVars,
                  reply, answers >>

\* LOCK_TTL_SECONDS elapse: Redis drops the lock entry
LockExpire(k) ==
  /\ lock[k]
  /\ lock' = [lock EXCEPT ![k] = FALSE]
  /\ lockEnd' = [lockEnd EXCEPT ![k] = "ttl"]
  /\ lockOwner' = [lockOwner EXCEPT ![k] = 0]
  /\ UNCHANGED << req, cache, dbVars, jobs, histVars, ruleVars, reply, answers >>

\* -------------------------------------------------- idempotencyHooks.save
\* a save that does not ask whether the request holds a lock
SaveWithoutLockKey(rq) ==
  /\ rq.pc = "send"
  /\ IF rq.key = NoKey
     THEN UNCHANGED redisVars
     ELSE /\ lock' = [lock EXCEPT ![rq.key] = FALSE]
          /\ lockEnd' = [lockEnd EXCEPT ![rq.key] = "del"]
          /\ lockOwner' = [lockOwner EXCEPT ![rq.key] = 0]
          /\ cache' = IF Is2xx(rq.statusCode)
                      THEN [cache EXCEPT ![rq.key] =
                              [statusCode |-> rq.statusCode, body |-> rq.body]]
                      ELSE cache
  /\ req' = Put(Take(req, rq), [rq EXCEPT !.pc = "done"])
  /\ UNCHANGED << dbVars, jobs, histVars, ruleVars, reply, answers >>

\* onSend: setex and del are queued in this order on the one connection
Save(rq) ==
  /\ rq.pc = "send"
  /\ IF ~rq.lockKey \/ rq.key = NoKey
     THEN UNCHANGED redisVars
     ELSE IF Is2xx(rq.statusCode)
          THEN /\ cache' = [cache EXCEPT ![rq.key] =
                    [statusCode |-> rq.statusCode, body |-> rq.body]]
               /\ lock' = [lock EXCEPT ![rq.key] = FALSE]
               /\ lockEnd' = [lockEnd EXCEPT ![rq.key] = "del"]
               /\ lockOwner' = [lockOwner EXCEPT ![rq.key] = 0]
          ELSE /\ lock' = [lock EXCEPT ![rq.key] = FALSE]
               /\ lockEnd' = [lockEnd EXCEPT ![rq.key] = "del"]
               /\ lockOwner' = [lockOwner EXCEPT ![rq.key] = 0]
               /\ UNCHANGED cache
  /\ req' = Put(Take(req, rq), [rq EXCEPT !.pc = "done"])
  /\ UNCHANGED << dbVars, jobs, histVars, ruleVars, reply, answers >>

\* ------------------------------------------- POST /submissions (create)
\* a create that inserts the row first and looks for the jurisdiction and its
\* rule set afterwards
HCreateInsertFirst(in, rq) ==
  /\ Len(subs) < MaxSubs
  /\ subs' = Append(subs,
       [organizationId |-> rq.org, jurisdictionId |-> rq.code,
        state |-> "DRAFT", completenessScore |-> 0,
        submissionDetails |-> rq.data, ruleResults |-> << >>,
        idempotencyKey |-> rq.key])
  /\ stateWrites' = Append(stateWrites, 0)
  /\ IF rq.code \notin Jurisdictions
     THEN Respond(in, rq, 400, ErrorBody("Invalid Jurisdiction Code"))
     ELSE IF findFirst(rq.code) = {}
          THEN Respond(in, rq, 500, ErrorBody("Internal Server Error"))
          ELSE Respond(in, rq, 201, RowBody("created", Len(subs) + 1, "DRAFT", 0))
  /\ UNCHANGED << events, packets, redisVars, jobs, histVars, ruleVars >>

\* createForUser up to the end of its insert transaction; a score of 1
\* continues into transitionState(newSubmission.id, "VALIDATED").  An
\* evaluation that finds no rule set in force throws, and the route answers 500.
HCreateOn(in, rq) ==
  /\ IF rq.code \notin Jurisdictions
     THEN /\ Respond(in, rq, 400, ErrorBody("Invalid Jurisdiction Code"))
          /\ UNCHANGED dbVars
     ELSE IF findFirst(rq.code) = {}
     THEN /\ Respond(in, rq, 500, ErrorBody("Internal Server Error"))
          /\ UNCHANGED dbVars
     ELSE \E ruleSet \in findFirst(rq.code) :
          LET ruleResults == evaluateRules(rq.data, ruleSet)
              score == completenessScore(ruleResults)
              id == Len(subs) + 1
          IN  /\ Len(subs) < MaxSubs
              /\ subs' = Append(subs,
                   [organizationId |-> rq.org, jurisdictionId |-> rq.code,
                    state |-> "DRAFT",
                    completenessScore |-> score,
                    submissionDetails |-> rq.data,
                    ruleResults |-> ruleResults,
                    idempotencyKey |-> rq.key])
              /\ stateWrites' = Append(stateWrites, 0)
              /\ IF score = FullScore
                 THEN Continue(in, rq, [rq EXCEPT !.id = id, !.ran = TRUE,
                                                  !.target = "VALIDATED",
                                                  !.pc = "txread"])
                 ELSE Respond(in, rq, 201,
                              RowBody("created", id, "DRAFT", score))
              /\ UNCHANGED << events, packets >>
  /\ UNCHANGED << redisVars, jobs, histVars, ruleVars >>

HCreate(rq) ==
  /\ rq.pc = "handler" /\ rq.op = "create"
  /\ HCreateOn(TRUE, rq)

\* ------------------------------------------- submissionService.transitionState
\* prisma.$transaction: findUniqueOrThrow reads the committed row ...
TxRead(rq) ==
  /\ rq.pc = "txread"
  /\ IF Found(rq.id, rq.org)
     THEN Continue(TRUE, rq, [rq EXCEPT !.from = subs[rq.id].state,
                                        !.pc = "txcommit"])
     ELSE Respond(TRUE, rq, 500, ErrorBody("Internal Server Error"))
  /\ UNCHANGED << redisVars, dbVars, jobs, histVars, ruleVars >>

\* ... and the commit appends the WorkflowEvent and writes the state.  The
\* create route answers with the inserted row and state "VALIDATED"; the
\* transition route answers with the updated row.
TxCommit(rq) ==
  /\ rq.pc = "txcommit"
  /\ Len(events) < seeded + MaxEvents
  /\ events' = Append(events,
       [submissionId |-> rq.id, eventType |-> "STATE_TRANSITION",
        fromState |-> rq.from, toState |-> rq.target])
  /\ subs' = [subs EXCEPT ![rq.id].state = rq.target]
  /\ stateWrites' = [stateWrites EXCEPT ![rq.id] = @ + 1]
  /\ IF rq.op = "create"
     THEN Respond(TRUE, rq, 201,
            RowBody("created", rq.id, "VALIDATED", FullScore))
     ELSE Respond(TRUE, rq, 200,
            RowBody("submission", rq.id, rq.target,
                    subs[rq.id].completenessScore))
  /\ UNCHANGED << redisVars, packets, jobs, histVars, ruleVars >>

\* ------------------------------------------- POST /submissions/:id/transition
\* the route without its canTransition test
HTransitionUnguarded(in, rq) ==
  /\ IF ~Found(rq.id, rq.org)
     THEN Respond(in, rq, 404, ErrorBody("Submission not found"))
     ELSE Continue(in, rq, [rq EXCEPT !.ran = TRUE, !.pc = "txread"])
  /\ UNCHANGED << redisVars, dbVars, jobs, histVars, ruleVars >>

\* findOneForUser, canTransition on that row, then transitionState
HTransitionOn(in, rq) ==
  /\ IF ~Found(rq.id, rq.org)
     THEN Respond(in, rq, 404, ErrorBody("Submission not found"))
     ELSE IF ~canTransition(subs[rq.id], rq.target)
          THEN Respond(in, rq, 400,
                 [kind |-> "INVALID_TRANSITION", id |-> rq.id,
                  state |-> IF rq.target = "VALIDATED"
                               /\ subs[rq.id].completenessScore < FullScore
                            THEN "incomplete" ELSE "no path",
                  score |-> 0])
          ELSE Continue(in, rq, [rq EXCEPT !.ran = TRUE, !.pc = "txread"])
  /\ UNCHANGED << redisVars, dbVars, jobs, histVars, ruleVars >>

\* ------------------------------------------------- PATCH /submissions/:id
\* updateSubmission: the transaction reads the row, checks DRAFT and merges
Merge(details, updates) ==
  [f \in DOMAIN details \cup DOMAIN updates |->
     IF f \in DOMAIN updates THEN updates[f] ELSE details[f]]

HPatchOn(in, rq) ==
  /\ IF DOMAIN rq.data = {}
     THEN Respond(in, rq, 400, ErrorBody("No update data provided"))
     ELSE IF ~Found(rq.id, rq.org)
          THEN Respond(in, rq, 500, ErrorBody("Internal Server Error"))
          ELSE IF subs[rq.id].state # "DRAFT"
               THEN Respond(in, rq, 400,
                      ErrorBody("Only DRAFT submissions can be edited."))
               ELSE Continue(in, rq,
                      [rq EXCEPT !.snap = Merge(subs[rq.id].submissionDetails,
                                                rq.data),
                                 !.ran = TRUE, !.pc = "patchcommit"])
  /\ UNCHANGED << redisVars, dbVars, jobs, histVars, ruleVars >>

\* a commit that validates the row when the new score is 1
PatchCommitValidates(rq) ==
  /\ rq.pc = "patchcommit"
  /\ IF findFirst(subs[rq.id].jurisdictionId) = {}
     THEN /\ Respond(TRUE, rq, 500, ErrorBody("Internal Server Error"))
          /\ UNCHANGED << subs, events, stateWrites >>
     ELSE \E ruleSet \in findFirst(subs[rq.id].jurisdictionId) :
          LET ruleResults == evaluateRules(rq.snap, ruleSet)
              score == completenessScore(ruleResults)
              state == IF score = FullScore THEN "VALIDATED"
                       ELSE subs[rq.id].state
          IN  /\ subs' = [subs EXCEPT ![rq.id].completenessScore = score,
                                      ![rq.id].submissionDetails = rq.snap,
                                      ![rq.id].ruleResults = ruleResults,
                                      ![rq.id].state = state]
              /\ IF state = subs[rq.id].state
                 THEN UNCHANGED << events, stateWrites >>
                 ELSE /\ events' = Append(events,
                           [submissionId |-> rq.id,
                            eventType |-> "STATE_TRANSITION",
                            fromState |-> subs[rq.id].state,
                            toState |-> state])
                      /\ stateWrites' = [stateWrites EXCEPT ![rq.id] = @ + 1]
              /\ Respond(TRUE, rq, 200, RowBody("submission", rq.id, state, score))
  /\ UNCHANGED << redisVars, packets, jobs, histVars, ruleVars >>

\* the commit with createMany and no deleteMany before it
PatchCommitAppend(rq) ==
  /\ rq.pc = "patchcommit"
  /\ IF findFirst(subs[rq.id].jurisdictionId) = {}
     THEN /\ Respond(TRUE, rq, 500, ErrorBody("Internal Server Error"))
          /\ UNCHANGED subs
     ELSE \E ruleSet \in findFirst(subs[rq.id].jurisdictionId) :
          LET ruleResults == evaluateRules(rq.snap, ruleSet)
              score == completenessScore(ruleResults)
          IN  /\ subs' = [subs EXCEPT ![rq.id].completenessScore = score,
                                      ![rq.id].submissionDetails = rq.snap,
                                      ![rq.id].ruleResults = @ \o ruleResults]
              /\ Respond(TRUE, rq, 200,
                   RowBody("submission", rq.id, subs[rq.id].state, score))
  /\ UNCHANGED << redisVars, events, packets, stateWrites, jobs, histVars,
                  ruleVars >>

\* ... evaluates the merged details and commits them with the new score; the
\* update takes the row's lock, and under it deleteMany and createMany replace
\* the rule results.  An evaluation that finds no rule set in force throws.
PatchCommit(rq) ==
  /\ rq.pc = "patchcommit"
  /\ IF findFirst(subs[rq.id].jurisdictionId) = {}
     THEN /\ Respond(TRUE, rq, 500, ErrorBody("Internal Server Error"))
          /\ UNCHANGED subs
     ELSE \E ruleSet \in findFirst(subs[rq.id].jurisdictionId) :
          LET ruleResults == evaluateRules(rq.snap, ruleSet)
              score == completenessScore(ruleResults)
          IN  /\ subs' = [subs EXCEPT ![rq.id].completenessScore = score,
                                      ![rq.id].submissionDetails = rq.snap,
                                      ![rq.id].ruleResults = ruleResults]
              /\ Respond(TRUE, rq, 200,
                   RowBody("submission", rq.id, subs[rq.id].state, score))
  /\ UNCHANGED << redisVars, events, packets, stateWrites, jobs, histVars,
                  ruleVars >>

\* -------------------------------------- POST /submissions/:id/generate-packet
\* the service without its two tests of the state
HPacketUngated(in, rq) ==
  /\ IF ~Found(rq.id, rq.org)
     THEN /\ Respond(in, rq, 500, ErrorBody("Internal Server Error"))
          /\ UNCHANGED jobs
     ELSE /\ BagCardinality(jobs) < MaxJobs
          /\ jobs' = Put(jobs, [pc |-> "waiting", submissionId |-> rq.id])
          /\ Respond(in, rq, 200, ErrorBody("Packet generation queued"))
  /\ UNCHANGED << redisVars, dbVars, histVars, ruleVars >>

HPacketOn(in, rq) ==
  /\ IF ~Found(rq.id, rq.org)
     THEN /\ Respond(in, rq, 500, ErrorBody("Internal Server Error"))
          /\ UNCHANGED jobs
     ELSE IF subs[rq.id].state \in {"DRAFT", "NEEDS_INFO"}
          THEN /\ Respond(in, rq, 400, ErrorBody("Invalid State"))
               /\ UNCHANGED jobs
          ELSE IF subs[rq.id].state \in
                    {"PACKET_READY", "SUBMITTED", "POLLING", "APPROVED"}
               THEN /\ Respond(in, rq, 409, ErrorBody("Conflict"))
                    /\ UNCHANGED jobs
               ELSE /\ BagCardinality(jobs) < MaxJobs
                    /\ jobs' = Put(jobs, [pc |-> "waiting",
                                          submissionId |-> rq.id])
                    /\ Respond(in, rq, 200,
                         ErrorBody("Packet generation queued"))
  /\ UNCHANGED << redisVars, dbVars, histVars, ruleVars >>

\* ------------------------------------------------------------ packet worker
\* processor: read the submission, render and write the PDF (may throw)
JobRender(j) ==
  /\ j.pc = "waiting"
  /\ \/ jobs' = Put(Take(jobs, j), [j EXCEPT !.pc = "packet"])
     \/ jobs' = Take(jobs, j)
  /\ reply' = NoReply
  /\ UNCHANGED answers
  /\ UNCHANGED << req, redisVars, dbVars, histVars, ruleVars >>

\* prisma.packet.create on a table with no unique index
JobPacketNoIndex(j) ==
  /\ j.pc = "packet"
  /\ packets' = Put(packets, j.submissionId)
  /\ jobs' = Put(Take(jobs, j), [j EXCEPT !.pc = "commit"])
  /\ reply' = NoReply
  /\ UNCHANGED answers
  /\ UNCHANGED << req, redisVars, subs, events, stateWrites, histVars,
                  ruleVars >>

\* prisma.packet.create: Packet_submissionId_key rejects a second row, the
\* processor rethrows and the job has failed
JobPacket(j) ==
  /\ j.pc = "packet"
  /\ IF BagIn(j.submissionId, packets)
     THEN jobs' = Take(jobs, j) /\ UNCHANGED packets
     ELSE /\ packets' = Put(packets, j.submissionId)
          /\ jobs' = Put(Take(jobs, j), [j EXCEPT !.pc = "commit"])
  /\ reply' = NoReply
  /\ UNCHANGED answers
  /\ UNCHANGED << req, redisVars, subs, events, stateWrites, histVars, ruleVars >>

\* the worker's update without the event
JobCommitStateOnly(j) ==
  /\ j.pc = "commit"
  /\ Len(events) < seeded + MaxEvents
  /\ subs' = [subs EXCEPT ![j.submissionId].state = "PACKET_READY"]
  /\ stateWrites' = [stateWrites EXCEPT ![j.submissionId] = @ + 1]
  /\ jobs' = Take(jobs, j)
  /\ reply' = NoReply
  /\ UNCHANGED answers
  /\ UNCHANGED << req, redisVars, events, packets, histVars, ruleVars >>

\* prisma.$transaction([update state, create event])
JobCommit(j) ==
  /\ j.pc = "commit"
  /\ Len(events) < seeded + MaxEvents
  /\ subs' = [subs EXCEPT ![j.submissionId].state = "PACKET_READY"]
  /\ stateWrites' = [stateWrites EXCEPT ![j.submissionId] = @ + 1]
  /\ events' = Append(events,
       [submissionId |-> j.submissionId, eventType |-> "STATE_TRANSITION",
        fromState |-> "VALIDATED", toState |-> "PACKET_READY"])
  /\ jobs' = Take(jobs, j)
  /\ reply' = NoReply
  /\ UNCHANGED answers
  /\ UNCHANGED << req, redisVars, packets, histVars, ruleVars >>

\* --------------------------------------------------------- specifications
\* Spec: duplicate deliveries of the create request through the idempotency
\* layer, from an empty database.
NextIdem ==
  \/ \E k \in Keys, p \in CreatePayloads : SendCreate(MaxReq, k, p)
  \/ \E rq \in Requests : CheckGet(rq)
  \/ \E rq \in Requests : CheckLock(rq)
  \/ \E k \in Keys : LockExpire(k)
  \/ \E rq \in Requests : HCreate(rq)
  \/ \E rq \in Requests : TxRead(rq)
  \/ \E rq \in Requests : TxCommit(rq)
  \/ \E rq \in Requests : Save(rq)

Spec == Init /\ [][NextIdem]_vars

\* SpecInTtl: the same, with every request answered before the lock's
\* LOCK_TTL_SECONDS elapse.
NextInTtl ==
  \/ \E k \in Keys, p \in CreatePayloads : SendCreate(MaxSent, k, p)
  \/ \E rq \in Requests : CheckGet(rq)
  \/ \E rq \in Requests : CheckLock(rq)
  \/ \E rq \in Requests : HCreate(rq)
  \/ \E rq \in Requests : TxRead(rq)
  \/ \E rq \in Requests : TxCommit(rq)
  \/ \E rq \in Requests : Save(rq)

SpecInTtl == Init /\ [][NextInTtl]_vars

\* SpecWf: workflow requests on one submission of orgA, each under an
\* idempotency key of its own (the hooks find no cache entry, take and release
\* a lock nobody else asks for), and the packet worker.  A request enters its
\* handler as it arrives.
PatchUpdates ==
  {[f \in {"hasStructuralCalcs"} |-> TRUE],
   [f \in {"hasStructuralCalcs"} |-> FALSE]}

Arrives == BagCardinality(req) < MaxReq

WfCreate ==
  /\ Arrives
  /\ subs = << >>
  /\ \E p \in {q \in CreatePayloads : q.code \in Jurisdictions} :
       HCreateOn(FALSE,
         NewReq(0, {}, "create", NoKey, "orgA", 0, "", p.code, p.data))

WfTransition ==
  /\ Arrives
  /\ \E id \in 1..Len(subs), t \in SubmissionState :
       HTransitionOn(FALSE,
         NewReq(0, {}, "transition", NoKey, "orgA", id, t, "", EmptyData))

WfPatch ==
  /\ Arrives
  /\ \E id \in 1..Len(subs), u \in PatchUpdates :
       HPatchOn(FALSE, NewReq(0, {}, "patch", NoKey, "orgA", id, "", "", u))

WfPacket ==
  /\ Arrives
  /\ \E id \in 1..Len(subs) :
       HPacketOn(FALSE,
         NewReq(0, {}, "packet", NoKey, "orgA", id, "", "", EmptyData))

\* The initial database: empty, or one of the states the happy path of one
\* complete submission of orgA passes through (create with auto-validation,
\* generate-packet and the worker, transition to SUBMITTED).
HappyPath ==
  << [submissionId |-> 1, eventType |-> "STATE_TRANSITION",
      fromState |-> "DRAFT", toState |-> "VALIDATED"],
     [submissionId |-> 1, eventType |-> "STATE_TRANSITION",
      fromState |-> "VALIDATED", toState |-> "PACKET_READY"],
     [submissionId |-> 1, eventType |-> "STATE_TRANSITION",
      fromState |-> "PACKET_READY", toState |-> "SUBMITTED"] >>

Seed(n) ==
  /\ seeded = n
  /\ events = SubSeq(HappyPath, 1, n)
  /\ subs = IF n = 0 THEN << >>
            ELSE << [organizationId |-> "orgA", jurisdictionId |-> "ATX",
                     state |-> HappyPath[n].toState,
                     completenessScore |-> FullScore,
                     submissionDetails |-> AllTrue,
                     ruleResults |-> evalFrom(AllTrue, RuleSetOf("ATX"), 1),
                     idempotencyKey |-> NoKey] >>
  /\ stateWrites = IF n = 0 THEN << >> ELSE << n >>
  /\ packets = IF n >= 2 THEN SetToBag({1}) ELSE EmptyBag

InitWf ==
  /\ req = EmptyBag
  /\ cache = [k \in Keys |-> NoResp]
  /\ lock = [k \in Keys |-> FALSE]
  /\ lockEnd = [k \in Keys |-> "none"]
  /\ lockOwner = [k \in Keys |-> 0]
  /\ jobs = EmptyBag
  /\ overlap = {}
  /\ asked = NoAsk
  /\ reply = NoReply
  /\ answers = {}
  /\ ruleSets = SeededRuleSets
  /\ now = 0
  /\ evald = NoEval
  /\ \E n \in 0..Len(HappyPath) : Seed(n)

NextWf ==
  \/ WfCreate
  \/ WfTransition
  \/ WfPatch
  \/ WfPacket
  \/ \E rq \in Requests : TxRead(rq)
  \/ \E rq \in Requests : TxCommit(rq)
  \/ \E rq \in Requests : PatchCommit(rq)
  \/ \E j \in JobsNow : JobRender(j)
  \/ \E j \in JobsNow : JobPacket(j)
  \/ \E j \in JobsNow : JobCommit(j)

SpecWf == InitWf /\ [][NextWf]_vars

\* SpecWorker: the packet jobs of up to MaxQueued generate-packet requests
\* that were accepted while the submission was VALIDATED are processed, by
\* workers running side by side, while transition requests arrive.
InitWorker ==
  /\ req = EmptyBag
  /\ cache = [k \in Keys |-> NoResp]
  /\ lock = [k \in Keys |-> FALSE]
  /\ lockEnd = [k \in Keys |-> "none"]
  /\ lockOwner = [k \in Keys |-> 0]
  /\ \E n \in 1..MaxQueued :
       jobs = [j \in {[pc |-> "waiting", submissionId |-> 1]} |-> n]
  /\ overlap = {}
  /\ asked = NoAsk
  /\ reply = NoReply
  /\ answers = {}
  /\ ruleSets = SeededRuleSets
  /\ now = 0
  /\ evald = NoEval
  /\ Seed(1)

NextWorker ==
  \/ WfTransition
  \/ \E rq \in Requests : TxRead(rq)
  \/ \E rq \in Requests : TxCommit(rq)
  \/ \E j \in JobsNow : JobRender(j)
  \/ \E j \in JobsNow : JobPacket(j)
  \/ \E j \in JobsNow : JobCommit(j)

SpecWorker == InitWorker /\ [][NextWorker]_vars

\* SpecTenant: orgA creates its submission (or has it already, somewhere on
\* the happy path) while orgB, which owns none, asks for ids up to MaxSubs:
\* the id of orgA's submission and ids of no submission.
Orgs == {"orgA", "orgB"}

TnGet ==
  /\ Arrives
  /\ \E org \in Orgs, id \in 1..MaxSubs :
       HGetOn(FALSE, NewReq(0, {}, "get", NoKey, org, id, "", "", EmptyData))

TnTransition ==
  /\ Arrives
  /\ \E id \in 1..MaxSubs, t \in SubmissionState :
       HTransitionOn(FALSE,
         NewReq(0, {}, "transition", NoKey, "orgB", id, t, "", EmptyData))

TnPatch ==
  /\ Arrives
  /\ \E id \in 1..MaxSubs, u \in PatchUpdates :
       HPatchOn(FALSE, NewReq(0, {}, "patch", NoKey, "orgB", id, "", "", u))

TnPacket ==
  /\ Arrives
  /\ \E id \in 1..MaxSubs :
       HPacketOn(FALSE,
         NewReq(0, {}, "packet", NoKey, "orgB", id, "", "", EmptyData))

NextTenant ==
  \/ WfCreate
  \/ \E rq \in Requests : TxRead(rq)
  \/ \E rq \in Requests : TxCommit(rq)
  \/ TnGet
  \/ TnTransition
  \/ TnPatch
  \/ TnPacket

SpecTenant == InitWf /\ [][NextTenant]_vars

\* SpecScore: one submission of orgA is created and edited while the rule set
\* in force for "ATX" is any of RuleLists.
InitScore ==
  /\ req = EmptyBag
  /\ cache = [k \in Keys |-> NoResp]
  /\ lock = [k \in Keys |-> FALSE]
  /\ lockEnd = [k \in Keys |-> "none"]
  /\ lockOwner = [k \in Keys |-> 0]
  /\ subs = << >>
  /\ events = << >>
  /\ packets = EmptyBag
  /\ jobs = EmptyBag
  /\ stateWrites = << >>
  /\ overlap = {}
  /\ seeded = 0
  /\ asked = NoAsk
  /\ reply = NoReply
  /\ answers = {}
  /\ \E rules \in RuleLists :
       ruleSets = {[jurisdictionId |-> "ATX", version |-> 1,
                    effectiveDate |-> 0, rules |-> rules]}
  /\ now = 0
  /\ evald = NoEval

NextScore ==
  \/ WfCreate
  \/ WfPatch
  \/ \E rq \in Requests : TxRead(rq)
  \/ \E rq \in Requests : TxCommit(rq)
  \/ \E rq \in Requests : PatchCommit(rq)

SpecScore == InitScore /\ [][NextScore]_vars

\* SpecEval: evaluateRules on its own, for any context, against a rule set that
\* is any of RuleLists.  SpecRules: evaluateRules on its own while rule sets of
\* "ATX" are added, each with the next version and any effective date, and
\* the clock advances.
Contexts == [Fields -> BOOLEAN] \cup {EmptyData}

Evaluate(context, code) ==
  /\ IF findFirst(code) = {}
     THEN evald' = [status |-> "No active RuleSet found", context |-> context,
                    version |-> 0, results |-> << >>]
     ELSE \E ruleSet \in findFirst(code) :
            evald' = [status |-> "ok", context |-> context,
                      version |-> ruleSet.version,
                      results |-> evaluateRules(context, ruleSet)]
  /\ UNCHANGED << req, redisVars, dbVars, jobs, histVars, reply, answers,
                  ruleSets, now >>

AddRuleSet(date) ==
  /\ Cardinality(ruleSets) < MaxRuleSets
  /\ ruleSets' = ruleSets \cup
       {[jurisdictionId |-> "ATX", version |-> Cardinality(ruleSets) + 1,
         effectiveDate |-> date, rules |-> RuleSetOf("ATX")]}
  /\ evald' = NoEval
  /\ UNCHANGED << req, redisVars, dbVars, jobs, histVars, reply, answers, now >>

Tick ==
  /\ now < MaxTime
  /\ now' = now + 1
  /\ evald' = NoEval
  /\ UNCHANGED << req, redisVars, dbVars, jobs, histVars, reply, answers,
                  ruleSets >>

NextEval == \E context \in Contexts : Evaluate(context, "ATX")

SpecEval == InitScore /\ [][NextEval]_vars

InitRules ==
  /\ req = EmptyBag
  /\ cache = [k \in Keys |-> NoResp]
  /\ lock = [k \in Keys |-> FALSE]
  /\ lockEnd = [k \in Keys |-> "none"]
  /\ lockOwner = [k \in Keys |-> 0]
  /\ subs = << >>
  /\ events = << >>
  /\ packets = EmptyBag
  /\ jobs = EmptyBag
  /\ stateWrites = << >>
  /\ overlap = {}
  /\ seeded = 0
  /\ asked = NoAsk
  /\ reply = NoReply
  /\ answers = {}
  /\ ruleSets = {}
  /\ now = 0
  /\ evald = NoEval

NextRules ==
  \/ \E date \in 0..MaxTime : AddRuleSet(date)
  \/ Tick
  \/ Evaluate(AllTrue, "ATX")

SpecRules == InitRules /\ [][NextRules]_vars

\* SpecIntake: create requests for "ATX" and for an unknown code arrive while
\* the rule sets of "ATX" are added and the clock advances.
Intake(p) ==
  /\ Arrives
  /\ subs = << >>
  /\ HCreateOn(FALSE,
       NewReq(0, {}, "create", NoKey, "orgA", 0, "", p.code, p.data))

NextIntake ==
  \/ \E p \in CreatePayloads : Intake(p)
  \/ \E date \in 0..MaxTime : AddRuleSet(date)
  \/ Tick
  \/ \E rq \in Requests : TxRead(rq)
  \/ \E rq \in Requests : TxCommit(rq)

SpecIntake == InitRules /\ [][NextIntake]_vars

\* SpecFn: canTransition on its own, on a row in any state with any
\* two-decimal score, asked about any target.
Scores == 0..FullScore

InitFn ==
  /\ req = EmptyBag
  /\ cache = [k \in Keys |-> NoResp]
  /\ lock = [k \in Keys |-> FALSE]
  /\ lockEnd = [k \in Keys |-> "none"]
  /\ lockOwner = [k \in Keys |-> 0]
  /\ jobs = EmptyBag
  /\ overlap = {}
  /\ seeded = 0
  /\ asked = NoAsk
  /\ reply = NoReply
  /\ answers = {}
  /\ ruleSets = SeededRuleSets
  /\ now = 0
  /\ evald = NoEval
  /\ events = << >>
  /\ packets = EmptyBag
  /\ stateWrites = << 0 >>
  /\ \E s \in SubmissionState, c \in Scores :
       subs = << [organizationId |-> "orgA", jurisdictionId |-> "ATX",
                  state |-> s, completenessScore |-> c,
                  submissionDetails |-> EmptyData, ruleResults |-> << >>,
                  idempotencyKey |-> NoKey] >>

Ask(to) ==
  /\ asked' = [to |-> to, result |-> canTransition(subs[1], to)]
  /\ UNCHANGED << req, redisVars, dbVars, jobs, overlap, seeded, reply,
                  answers, ruleVars >>

NextFn == \E to \in SubmissionState : Ask(to)

SpecFn == InitFn /\ [][NextFn]_vars

\* SpecGate: generate-packet requests on a row in any state
NextGate == WfPacket

SpecGate == InitFn /\ [][NextGate]_vars

\* ------------------------------------------------------------- properties
\* a request answered from the cache
Replayed(rq) ==
  rq.pc \in {"send", "done"} /\ ~rq.lockKey /\ rq.statusCode # 409

\* C1: for every idempotency key, at most one of the requests carrying it runs
\* the create handler to a 2xx response, and at most one PermitSubmission row
\* is persisted for it.
AtMostOncePerKey ==
  \A k \in Keys :
    /\ Cardinality({rq \in Requests :
                      rq.key = k /\ rq.ran /\ Is2xx(rq.statusCode)}) <= 1
    /\ Cardinality({i \in 1..Len(subs) : subs[i].idempotencyKey = k}) <= 1

\* C2: of two requests with the same key that were in flight at the same time
\* and found no cached response, exactly one took the lock and got the
\* handler's response (2xx for a payload the handler accepts), and the other
\* was answered 409 "Processing..." without taking the lock or running the
\* handler.
Won(rq) ==
  /\ rq.lockKey /\ rq.ran
  /\ rq.code \in Jurisdictions => Is2xx(rq.statusCode)

Lost(rq) ==
  /\ ~rq.lockKey /\ ~rq.ran
  /\ rq.statusCode = 409 /\ rq.body = ErrorBody("Processing...")

ConcurrentDuplicate ==
  \A a, b \in Requests :
    ( /\ {a.rid, b.rid} \in overlap
      /\ a.rid # b.rid
      /\ a.pc = "done" /\ b.pc = "done"
      /\ ~Replayed(a) /\ ~Replayed(b) )
    => \/ Won(a) /\ Lost(b)
       \/ Won(b) /\ Lost(a)

\* C3: a request sent after a request with the same key completed with a 2xx
\* response is answered with the status code and body of that response,
\* whatever its own payload is.
IdempotentReplay ==
  \A a, b \in Requests :
    (b.pc \in {"send", "done"} /\ a.rid \in b.after)
    => b.statusCode = a.statusCode /\ b.body = a.body

\* C4: when a request that ran the handler ends with a 4xx/5xx response, no
\* cache entry exists for its key and the lock of its key is released.
ErrorsNeverCached ==
  [][\A rq \in Requests :
       (Save(rq) /\ rq.ran /\ ~Is2xx(rq.statusCode))
       => cache'[rq.key] = NoResp /\ ~lock'[rq.key]]_vars

\* C5: a request that reaches SET NX after the TTL of the lock of its key
\* elapsed, the holder not having released it, is not answered 409: it takes
\* the lock and goes on to the handler.
LockAutoExpiry ==
  [][\A rq \in Requests :
       (CheckLock(rq) /\ lockEnd[rq.key] = "ttl")
       => /\ lock'[rq.key]
          /\ \E x \in BagToSet(req') :
               /\ x.rid = rq.rid
               /\ x.lockKey /\ x.pc = "handler" /\ x.statusCode # 409]_vars

\* the holder still in its handler, and a later request holding the lock too
LockAutoExpiryCase ==
  \E a, b \in Requests :
    /\ a.rid # b.rid /\ a.key = b.key
    /\ a.lockKey /\ a.pc = "handler"
    /\ b.lockKey /\ b.pc = "handler"
    /\ lock[a.key]

\* C6: every change of a submission's persisted state from s to t is one that
\* canTransition allows on the row as it is persisted: t is in
\* ALLOWED_TRANSITIONS[s], and the score is 1.0 when t is VALIDATED.
OnlyValidatedTransitions ==
  [][\A id \in 1..Len(subs) :
       subs'[id].state # subs[id].state
       => canTransition(subs[id], subs'[id].state)]_vars

\* C7: canTransition is true exactly when the target is in the table row of
\* the state and (the target is not VALIDATED or the score is 1.0); it is
\* false for VALIDATED below 1.0 and false for the state itself.
TableRows ==
  {<<"DRAFT", "VALIDATED">>, <<"VALIDATED", "PACKET_READY">>,
   <<"PACKET_READY", "SUBMITTED">>, <<"SUBMITTED", "APPROVED">>,
   <<"SUBMITTED", "NEEDS_INFO">>, <<"POLLING", "APPROVED">>,
   <<"POLLING", "NEEDS_INFO">>, <<"NEEDS_INFO", "DRAFT">>}

TablePlusGuard ==
  asked.to # ""
  => /\ asked.result <=>
          /\ <<subs[1].state, asked.to>> \in TableRows
          /\ asked.to # "VALIDATED" \/ subs[1].completenessScore = FullScore
     /\ (asked.to = "VALIDATED" /\ subs[1].completenessScore < FullScore)
          => ~asked.result
     /\ asked.to = subs[1].state => ~asked.result

\* a DRAFT row below 1.0 asked about VALIDATED
TablePlusGuardCase ==
  /\ asked.to = "VALIDATED"
  /\ subs[1].state = "DRAFT"
  /\ subs[1].completenessScore < FullScore
  /\ ~asked.result

\* C8: a transition request whose target canTransition refuses on the row as
\* persisted is answered 400 INVALID_TRANSITION, changes no row, appends no
\* WorkflowEvent and leaves nothing of itself behind.
RejectedTransitionNoEffect ==
  [][(\E id \in 1..Len(subs), t \in SubmissionState :
        /\ Arrives
        /\ ~canTransition(subs[id], t)
        /\ HTransitionOn(FALSE,
             NewReq(0, {}, "transition", NoKey, "orgA", id, t, "", EmptyData)))
     => /\ reply'.op = "transition"
        /\ reply'.statusCode = 400
        /\ reply'.body.kind = "INVALID_TRANSITION"
        /\ subs' = subs /\ events' = events /\ req' = req]_vars

\* an incomplete DRAFT refused VALIDATED
RejectedTransitionCase ==
  /\ reply.op = "transition"
  /\ reply.statusCode = 400
  /\ reply.body.kind = "INVALID_TRANSITION"
  /\ reply.body.state = "incomplete"
  /\ subs[1].state = "DRAFT"
  /\ events = << >>

\* C9: a submission whose persisted state is APPROVED keeps that state in
\* every later step.
ApprovedIsTerminal ==
  [][\A id \in 1..Len(subs) :
       subs[id].state = "APPROVED" => subs'[id].state = "APPROVED"]_vars

\* C10: the events of a submission are as many as the writes of its state;
\* each such write comes in one step with one appended STATE_TRANSITION event
\* of that submission to the state written; the state changes in no other
\* step; events are only ever appended.
EventsOf(id) == {i \in 1..Len(events) : events[i].submissionId = id}

AuditComplete ==
  /\ [](\A id \in 1..Len(subs) : Cardinality(EventsOf(id)) = stateWrites[id])
  /\ [][/\ Len(events') >= Len(events)
        /\ SubSeq(events', 1, Len(events)) = events
        /\ \A id \in 1..Len(subs) :
             /\ subs'[id].state # subs[id].state
                  => stateWrites'[id] # stateWrites[id]
             /\ stateWrites'[id] # stateWrites[id]
                  => /\ stateWrites'[id] = stateWrites[id] + 1
                     /\ Len(events') = Len(events) + 1
                     /\ events'[Len(events')].submissionId = id
                     /\ events'[Len(events')].eventType = "STATE_TRANSITION"
                     /\ events'[Len(events')].toState = subs'[id].state]_vars

\* the worker's advance to PACKET_READY, written with its event
AuditCompleteCase ==
  /\ Len(events) > seeded
  /\ events[Len(events)].toState = "PACKET_READY"
  /\ subs[1].state = "PACKET_READY"
  /\ packets = SetToBag({1})

\* C11: a create answered 201 returns and leaves persisted the state VALIDATED,
\* with one WorkflowEvent of the submission, DRAFT -> VALIDATED, exactly when
\* the score it computed is 1.0; otherwise it returns and leaves persisted the
\* state DRAFT with no WorkflowEvent of the submission.
AutoValidation ==
  (reply.op = "create" /\ reply.statusCode = 201)
  => LET id == reply.body.id
         mine == {i \in 1..Len(events) : events[i].submissionId = id}
     IN  /\ reply.body.state = "VALIDATED" <=> reply.body.score = FullScore
         /\ subs[id].state = reply.body.state
         /\ IF reply.body.score = FullScore
            THEN /\ Cardinality(mine) = 1
                 /\ \A i \in mine : /\ events[i].fromState = "DRAFT"
                                     /\ events[i].toState = "VALIDATED"
            ELSE mine = {}

\* C12: the persisted completenessScore of every submission is the number of
\* passed REQUIRED results over the number of REQUIRED results of its persisted
\* rule results, to the nearest hundredth; it is 1.0 when there is no REQUIRED
\* result; and it is the same whatever the outcome of a WARNING result.
RequiredOf(results) ==
  {i \in 1..Len(results) : results[i].severity = "REQUIRED"}

TenantIsolation ==
  [][/\ \A a, b \in answers' :
          a.op = b.op => a.statusCode = b.statusCode /\ a.body = b.body
     /\ \A a \in answers' : a.op = "get" => a.statusCode = 404
     /\ reply'.org = "orgB" => UNCHANGED << subs, events, packets, jobs >>]_vars

\* orgB has asked each of the four operations of orgA's submission and of an
\* id of no submission
TenantIsolationCase ==
  \A op \in {"get", "transition", "patch", "packet"} :
    \E a, b \in answers :
      a.op = op /\ a.id = "foreign" /\ b.op = op /\ b.id = "absent"
\* C14: a generate-packet request on a submission enqueues a job exactly when
\* the state is VALIDATED, and is then answered 200; in DRAFT or NEEDS_INFO it
\* is answered 400 Invalid State, in PACKET_READY, SUBMITTED, POLLING or
\* APPROVED 409 Conflict, and then no job is enqueued and no row changes.
PacketGating ==
  [][reply'.op = "packet"
     => LET state == subs[1].state
        IN  /\ state = "VALIDATED"
                 <=> BagCardinality(jobs') = BagCardinality(jobs) + 1
            /\ state = "VALIDATED"
                 => /\ reply'.statusCode = 200
                    /\ [pc |-> "waiting", submissionId |-> 1] \in BagToSet(jobs')
            /\ state \in {"DRAFT", "NEEDS_INFO"}
                 => /\ reply'.statusCode = 400
                    /\ reply'.body.kind = "Invalid State"
            /\ state \in {"PACKET_READY", "SUBMITTED", "POLLING", "APPROVED"}
                 => /\ reply'.statusCode = 409
                    /\ reply'.body.kind = "Conflict"
            /\ state # "VALIDATED" => UNCHANGED << jobs, subs, events, packets >>
            /\ subs' = subs]_vars

\* a request on a VALIDATED submission has been accepted and its job is queued
PacketGatingCase ==
  /\ reply.op = "packet" /\ reply.statusCode = 200
  /\ subs[1].state = "VALIDATED"
  /\ BagCardinality(jobs) = 1

\* C15: a PATCH answered "Only DRAFT submissions can be edited." changes no
\* row, and no step changes the details or the score of a submission whose
\* state is not DRAFT.
EditsOnlyInDraft ==
  [][/\ (reply'.op = "patch" /\ reply'.statusCode = 400
           /\ reply'.body.kind = "Only DRAFT submissions can be edited.")
          => UNCHANGED << subs, events >>
     /\ \A id \in 1..Len(subs) :
          subs[id].state # "DRAFT"
            => /\ subs'[id].submissionDetails = subs[id].submissionDetails
               /\ subs'[id].completenessScore = subs[id].completenessScore]_vars
WorkerFromValidated ==
  [][(BagCardinality(jobs') < BagCardinality(jobs) /\ Len(events') > Len(events))
       => LET event == events'[Len(events')]
          IN  /\ event.fromState = subs[event.submissionId].state
              /\ event.toState = subs'[event.submissionId].state
              /\ subs[event.submissionId].state = "VALIDATED"]_vars
\* C18: no submission ever has two Packets, however many jobs of it are
\* processed and in whatever order; a job reaches its commit only if it created
\* the Packet, and a job that finds one present ends with the submissions and
\* the events as they were.
AtMostOnePacket ==
  [][/\ \A id \in BagToSet(packets') : CopiesIn(id, packets') = 1
     /\ \A j \in JobsNow :
          (j.pc = "packet" /\ BagIn(j.submissionId, packets))
            => /\ CopiesIn([j EXCEPT !.pc = "commit"], jobs')
                    <= CopiesIn([j EXCEPT !.pc = "commit"], jobs)
               /\ jobs' = Take(jobs, j)
                    => UNCHANGED << subs, events, packets >>]_vars

\* one job created the Packet and committed PACKET_READY, and a second job of
\* the same submission has rendered and comes to create its Packet
AtMostOnePacketCase ==
  /\ BagIn(1, packets)
  /\ subs[1].state = "PACKET_READY"
  /\ BagIn([pc |-> "packet", submissionId |-> 1], jobs)

\* C19: an evaluation for "ATX" at clock reading now fails with 'No active
\* RuleSet found' exactly when no rule set of "ATX" has effectiveDate <= now,
\* and otherwise uses the one rule set in force whose effectiveDate is greater
\* than that of every other rule set in force: the rule sets dated after now
\* play no part, and the rule sets in force determine the one that is used.
InForce ==
  {rs \in ruleSets : rs.jurisdictionId = "ATX" /\ rs.effectiveDate <= now}

ActiveRuleSet ==
  /\ evald.status = "No active RuleSet found"
       <=> (evald # NoEval /\ InForce = {})
  /\ evald.status = "ok"
       => \E rs \in InForce :
            /\ rs.version = evald.version
            /\ \A o \in InForce \ {rs} : o.effectiveDate < rs.effectiveDate

\* C20: an evaluation against a rule set some of whose keys have no logic
\* function succeeds and yields one result for each rule with a registered key,
\* with the rule's key and severity, and none for the other rules; the score of
\* the results counts the rules with a registered key only.
Registered(rules) ==
  {i \in 1..Len(rules) : rules[i].key \in DOMAIN ruleImplementations}

SkipUnregistered ==
  evald # NoEval
  => LET rules == (CHOOSE rs \in ruleSets : rs.version = evald.version).rules
         results == evald.results
         required == {i \in Registered(rules) : rules[i].severity = "REQUIRED"}
         n == Cardinality(required)
         p == Cardinality({i \in required :
                Flag(evald.context, ruleImplementations[rules[i].key])})
         score == completenessScore(results)
     IN  /\ evald.status = "ok"
         /\ Len(results) = Cardinality(Registered(rules))
         /\ \A i \in Registered(rules) :
              \E k \in 1..Len(results) :
                /\ results[k].ruleKey = rules[i].key
                /\ results[k].severity = rules[i].severity
         /\ \A k \in 1..Len(results) :
              results[k].ruleKey \in DOMAIN ruleImplementations
         /\ n = 0 => score = FullScore
         /\ n > 0 => /\ 2 * n * score - 200 * p <= n
                      /\ 2 * n * score - 200 * p > -n

\* an evaluation against a REQUIRED rule with a registered key, which passed,
\* and a REQUIRED rule with none
SkipUnregisteredCase ==
  /\ evald.status = "ok"
  /\ Len(evald.results) = 1
  /\ evald.results[1].passed /\ evald.results[1].severity = "REQUIRED"
  /\ \E rs \in ruleSets :
       /\ Len(rs.rules) = 2
       /\ \A i \in 1..2 : rs.rules[i].severity = "REQUIRED"
\* C21: a create request with an unknown jurisdiction code is answered 400, one
\* for a jurisdiction with no rule set in force is answered 500, and in both
\* cases the submissions with their rule results and the events stay as they
\* were.
FailedIntake ==
  [][/\ (\E p \in CreatePayloads : p.code \notin Jurisdictions /\ Intake(p))
          => /\ reply'.op = "create" /\ reply'.statusCode = 400
             /\ reply'.body.kind = "Invalid Jurisdiction Code"
             /\ UNCHANGED << subs, events >>
     /\ (\E p \in CreatePayloads :
            p.code \in Jurisdictions /\ InForce = {} /\ Intake(p))
          => /\ reply'.op = "create" /\ reply'.statusCode = 500
             /\ UNCHANGED << subs, events >>
     /\ (reply'.op = "create" /\ reply'.statusCode >= 400)
          => UNCHANGED << subs, events >>]_vars

\* a create for "ATX" has been answered 500 while every rule set of "ATX" is
\* dated after now
FailedIntakeCase ==
  /\ reply.op = "create" /\ reply.statusCode = 500
  /\ ruleSets # {} /\ InForce = {}
  /\ subs = << >> /\ events = << >>
\* ------------------------------------------------ a Redis that can fail
\* SpecStore: the hooks with every Redis command as a step of its own, and
\* each command either applied or rejected with an error.
\* a check that answers 500 when redis.get throws
CheckGetRejects(rq) ==
  /\ rq.pc = "get"
  /\ req' = Put(Take(req, rq),
                [rq EXCEPT !.statusCode = 500, !.body = ErrorBody("Redis"),
                           !.pc = "send", !.storeError = TRUE])
  /\ UNCHANGED << redisVars, dbVars, jobs, histVars, ruleVars, reply, answers >>

\* redis.get throws: check's catch logs "Idempotency Check Failed" and returns,
\* the request goes on to its handler with no idempotencyLockKey
CheckGetFails(rq) ==
  /\ rq.pc = "get"
  /\ req' = Put(Take(req, rq),
                [rq EXCEPT !.pc = "handler", !.storeError = TRUE])
  /\ UNCHANGED << redisVars, dbVars, jobs, histVars, ruleVars, reply, answers >>

\* redis.set(lockKey, "LOCKED", "EX", 10, "NX") throws: the same catch
CheckLockFails(rq) ==
  /\ rq.pc = "lock"
  /\ req' = Put(Take(req, rq),
                [rq EXCEPT !.pc = "handler", !.storeError = TRUE])
  /\ UNCHANGED << redisVars, dbVars, jobs, histVars, ruleVars, reply, answers >>

\* save without idempotencyLockKey or without the header: returns at once
SaveSkip(rq) ==
  /\ rq.pc = "send"
  /\ ~rq.lockKey \/ rq.key = NoKey
  /\ req' = Put(Take(req, rq), [rq EXCEPT !.pc = "done"])
  /\ UNCHANGED << redisVars, dbVars, jobs, histVars, ruleVars, reply, answers >>

\* a 2xx response whose cache write is skipped: the lock is released with
\* nothing stored
SaveSetexSkipped(rq) ==
  /\ rq.pc = "send"
  /\ rq.lockKey /\ rq.key # NoKey /\ Is2xx(rq.statusCode)
  /\ req' = Put(Take(req, rq), [rq EXCEPT !.pc = "release"])
  /\ UNCHANGED << redisVars, dbVars, jobs, histVars, ruleVars, reply, answers >>

\* Promise.all([redis.setex(..), redis.del(lockKey)]) on a 2xx response: both
\* commands are queued on the one connection, setex first; this is the setex
SaveSetex(rq) ==
  /\ rq.pc = "send"
  /\ rq.lockKey /\ rq.key # NoKey /\ Is2xx(rq.statusCode)
  /\ cache' = [cache EXCEPT ![rq.key] =
                 [statusCode |-> rq.statusCode, body |-> rq.body]]
  /\ req' = Put(Take(req, rq), [rq EXCEPT !.pc = "release"])
  /\ UNCHANGED << lock, lockEnd, lockOwner, dbVars, jobs, histVars, ruleVars, reply,
                  answers >>

\* a setex rejected with no further cleanup: the save ends there
SaveSetexFailsNoCleanup(rq) ==
  /\ rq.pc = "send"
  /\ rq.lockKey /\ rq.key # NoKey /\ Is2xx(rq.statusCode)
  /\ req' = Put(Take(req, rq), [rq EXCEPT !.pc = "done", !.storeError = TRUE])
  /\ UNCHANGED << redisVars, dbVars, jobs, histVars, ruleVars, reply, answers >>

\* setex is rejected: Promise.all rejects, its del is on the way already, and
\* the catch block sends a del of its own
SaveSetexFails(rq) ==
  /\ rq.pc = "send"
  /\ rq.lockKey /\ rq.key # NoKey /\ Is2xx(rq.statusCode)
  /\ req' = Put(Take(req, rq),
                [rq EXCEPT !.pc = "cleanup", !.storeError = TRUE])
  /\ UNCHANGED << redisVars, dbVars, jobs, histVars, ruleVars, reply, answers >>

\* the del of a Promise.all whose setex was rejected; the del of the catch
\* block follows
SaveCleanup(rq) ==
  /\ rq.pc = "cleanup"
  /\ lock' = [lock EXCEPT ![rq.key] = FALSE]
  /\ lockEnd' = [lockEnd EXCEPT ![rq.key] = "del"]
  /\ lockOwner' = [lockOwner EXCEPT ![rq.key] = 0]
  /\ req' = Put(Take(req, rq), [rq EXCEPT !.pc = "release"])
  /\ UNCHANGED << cache, dbVars, jobs, histVars, ruleVars, reply, answers >>

\* whether the save of rq has reached a del that ends it: the del of
\* Promise.all after its setex, the del of the catch block, or the del of the
\* branch for a 4xx/5xx response
AtRelease(rq) ==
  \/ rq.pc = "release"
  \/ /\ rq.pc = "send"
     /\ rq.lockKey /\ rq.key # NoKey /\ ~Is2xx(rq.statusCode)

\* a save that releases the lock after a 2xx response only
SaveDelOn2xxOnly(rq) ==
  /\ AtRelease(rq)
  /\ IF rq.pc = "release"
       THEN /\ lock' = [lock EXCEPT ![rq.key] = FALSE]
            /\ lockEnd' = [lockEnd EXCEPT ![rq.key] = "del"]
            /\ lockOwner' = [lockOwner EXCEPT ![rq.key] = 0]
       ELSE UNCHANGED << lock, lockEnd, lockOwner >>
  /\ req' = Put(Take(req, rq), [rq EXCEPT !.pc = "done"])
  /\ UNCHANGED << cache, dbVars, jobs, histVars, ruleVars, reply, answers >>

SaveDel(rq) ==
  /\ AtRelease(rq)
  /\ lock' = [lock EXCEPT ![rq.key] = FALSE]
  /\ lockEnd' = [lockEnd EXCEPT ![rq.key] = "del"]
  /\ lockOwner' = [lockOwner EXCEPT ![rq.key] = 0]
  /\ req' = Put(Take(req, rq), [rq EXCEPT !.pc = "done"])
  /\ UNCHANGED << cache, dbVars, jobs, histVars, ruleVars, reply, answers >>

\* the del is rejected as well, and so is the one the catch block tries; the
\* lock stays until its TTL ends
SaveDelFails(rq) ==
  /\ AtRelease(rq)
  /\ req' = Put(Take(req, rq), [rq EXCEPT !.pc = "leaked", !.storeError = TRUE])
  /\ UNCHANGED << redisVars, dbVars, jobs, histVars, ruleVars, reply, answers >>

StorePayloads ==
  {[code |-> "ATX", data |-> MissingCalcs], [code |-> "BAD", data |-> AllTrue]}

NextStore ==
  \/ \E k \in Keys, p \in StorePayloads : SendCreate(MaxReq, k, p)
  \/ \E rq \in Requests : CheckGet(rq)
  \/ \E rq \in Requests : CheckGetFails(rq)
  \/ \E rq \in Requests : CheckLock(rq)
  \/ \E rq \in Requests : CheckLockFails(rq)
  \/ \E rq \in Requests : HCreate(rq)
  \/ \E rq \in Requests : SaveSkip(rq)
  \/ \E rq \in Requests : SaveSetex(rq)
  \/ \E rq \in Requests : SaveSetexFails(rq)
  \/ \E rq \in Requests : SaveCleanup(rq)
  \/ \E rq \in Requests : SaveDel(rq)
  \/ \E rq \in Requests : SaveDelFails(rq)

SpecStore == Init /\ [][NextStore]_vars

\* ---------------------------------------------------- ATX_IMPERVIOUS_COVER
\* SpecCover: the logic function on its own.  lotArea and imperviousArea are
\* optional numbers of the request body; a context holds each or not.
AreaContexts ==
  UNION {[fields -> 0..MaxArea] :
           fields \in SUBSET {"lotArea", "imperviousArea"}}

\* !x of an optional number: undefined and 0 are falsy
Falsy(ctx, f) == f \notin DOMAIN ctx \/ ctx[f] = 0

\* ratio <= 0.45 on the quotient of two integers of this size is the exact
\* comparison: 9/20 rounds to the double the literal 0.45 denotes, and every
\* other quotient is further from it than the rounding error
ATX_IMPERVIOUS_COVER(ctx) ==
  IF Falsy(ctx, "lotArea") \/ Falsy(ctx, "imperviousArea")
  THEN [passed |-> FALSE, message |-> "Missing lot/impervious area data."]
  ELSE LET passed == 100 * ctx["imperviousArea"] <= 45 * ctx["lotArea"]
       IN  [passed |-> passed,
            message |-> IF passed THEN "is within the 45% limit."
                        ELSE "exceeds the 45% limit."]

Cover(ctx) ==
  /\ evald' = [status |-> "ATX_IMPERVIOUS_COVER", context |-> ctx,
               version |-> 0, results |-> << ATX_IMPERVIOUS_COVER(ctx) >>]
  /\ UNCHANGED << req, redisVars, dbVars, jobs, histVars, reply, answers,
                  ruleSets, now >>

NextCover == \E ctx \in AreaContexts : Cover(ctx)

SpecCover == Init /\ [][NextCover]_vars

\* ------------------------------------------- one key, any tenant, any route
\* SpecShared: the hooks are registered for the whole application, so every
\* POST and PATCH request that carries the header passes through them,
\* whoever sends it and whatever its route.  The requests are those of orgA
\* and orgB on the create, transition, PATCH and generate-packet routes,
\* under keys that may be in use already.
SharedRequests ==
  {[op |-> "create", id |-> 0, target |-> "", code |-> p.code, data |-> p.data] :
     p \in {q \in CreatePayloads : q.code \in Jurisdictions}}
  \cup {[op |-> "transition", id |-> id, target |-> "VALIDATED", code |-> "",
          data |-> EmptyData] : id \in 1..MaxSubs}
  \cup {[op |-> "patch", id |-> id, target |-> "", code |-> "", data |-> u] :
          id \in 1..MaxSubs, u \in PatchUpdates}
  \cup {[op |-> "packet", id |-> id, target |-> "", code |-> "",
          data |-> EmptyData] : id \in 1..MaxSubs}

SendAs(k, org, r) ==
  LET rid == BagCardinality(req) + 1
  IN  /\ BagCardinality(req) < MaxReq
      /\ req' = Put(req,
           NewReq(rid,
                  {x.rid : x \in {y \in Requests :
                     y.key = k /\ y.pc = "done" /\ Is2xx(y.statusCode)}},
                  r.op, k, org, r.id, r.target, r.code, r.data))
      /\ overlap' = overlap \cup
           {{rid, q.rid} : q \in {x \in Requests : InFlight(x) /\ x.key = k}}
      /\ UNCHANGED << redisVars, dbVars, jobs, seeded, asked, reply, answers,
                     ruleVars >>

\* the route handler of a request that passed the preHandler hook
HTransition(rq) ==
  /\ rq.pc = "handler" /\ rq.op = "transition"
  /\ HTransitionOn(TRUE, rq)

HPatch(rq) ==
  /\ rq.pc = "handler" /\ rq.op = "patch"
  /\ HPatchOn(TRUE, rq)

HPacket(rq) ==
  /\ rq.pc = "handler" /\ rq.op = "packet"
  /\ HPacketOn(TRUE, rq)

NextShared ==
  \/ \E k \in Keys, org \in Orgs, r \in SharedRequests : SendAs(k, org, r)
  \/ \E rq \in Requests : CheckGet(rq)
  \/ \E rq \in Requests : CheckLock(rq)
  \/ \E rq \in Requests : HCreate(rq)
  \/ \E rq \in Requests : HTransition(rq)
  \/ \E rq \in Requests : HPatch(rq)
  \/ \E rq \in Requests : HPacket(rq)
  \/ \E rq \in Requests : TxRead(rq)
  \/ \E rq \in Requests : TxCommit(rq)
  \/ \E rq \in Requests : PatchCommit(rq)
  \/ \E rq \in Requests : Save(rq)

SpecShared == Init /\ [][NextShared]_vars

\* the requests whose handling produced the response that rq, answered by
\* the check from the cache, received
ProducersOf(rq) ==
  {src \in Requests : /\ src.key = rq.key /\ src.ran /\ src.lockKey
                      /\ src.pc = "done"
                      /\ src.statusCode = rq.statusCode /\ src.body = rq.body}

ServedFromCache ==
  {rq \in Requests : /\ rq.key # NoKey /\ ~rq.ran /\ rq.pc \in {"send", "done"}
                     /\ Is2xx(rq.statusCode)}

\* -------------------------------------------------- scoring and validation
\* SpecRound: the scoring of createForUser and updateSubmission on the results
\* of an evaluation with n REQUIRED rules, p of them passed, and the test that
\* lets the submission become VALIDATED: completenessScore === 1 after the
\* insert, canTransition on an explicit request.  The Rule table has no unique
\* index on (ruleSetId, key); n is any number up to MaxRequired.  Each
\* behaviour scores one evaluation.
ResultsOf(n, p) ==
  [i \in 1..n |-> [ruleKey |-> "ARCHITECTURAL_PLANS_SUBMITTED",
                   severity |-> "REQUIRED", passed |-> i <= p]]

ScoreResults(n, p) ==
  LET results == ResultsOf(n, p)
      row == [state |-> "DRAFT", completenessScore |-> completenessScore(results)]
  IN  /\ evald = NoEval
      /\ evald' = [status |-> "scored", context |-> EmptyData, version |-> 0,
                   results |-> results]
      /\ asked' = [to |-> "VALIDATED",
                   result |-> /\ row.completenessScore = FullScore
                              /\ canTransition(row, "VALIDATED")]
      /\ UNCHANGED << req, redisVars, dbVars, jobs, overlap, seeded, reply,
                      answers, ruleSets, now >>

NextRound == \E n \in 0..MaxRequired : \E p \in 0..n : ScoreResults(n, p)

SpecRound == Init /\ [][NextRound]_vars

\* ------------------------------------------ a transaction that is rejected
\* SpecAbort: create requests through the hooks, where the transaction of
\* transitionState can be rejected by the database (a timeout, a lost
\* connection): it rolls back, the rejection passes through createForUser,
\* which has no catch, and the route answers 500.
TxFails(rq) ==
  /\ rq.pc \in {"txread", "txcommit"}
  /\ Respond(TRUE, rq, 500, ErrorBody("Internal Server Error"))
  /\ UNCHANGED << redisVars, dbVars, jobs, histVars, ruleVars >>

NextAbort ==
  \/ \E k \in Keys, p \in CreatePayloads : SendCreate(MaxReq, k, p)
  \/ \E rq \in Requests : CheckGet(rq)
  \/ \E rq \in Requests : CheckLock(rq)
  \/ \E rq \in Requests : HCreate(rq)
  \/ \E rq \in Requests : TxRead(rq)
  \/ \E rq \in Requests : TxCommit(rq)
  \/ \E rq \in Requests : TxFails(rq)
  \/ \E rq \in Requests : Save(rq)

SpecAbort == Init /\ [][NextAbort]_vars

\* ------------------------------------------------- a second packet round
\* SpecRework: generate-packet requests and the worker on a VALIDATED
\* submission of orgA that is either on its first round (no Packet yet) or on
\* its second: it was PACKET_READY and SUBMITTED, came back to DRAFT through
\* NEEDS_INFO and was validated again, and its first Packet is in the table.
\* Up to MaxQueued requests were accepted before the worker took a job, and
\* the submission is read while the jobs run.  BullMQ hands every waiting job
\* to the worker, and the worker runs each step of a job it has taken.
ReworkPath ==
  HappyPath \o
  << [submissionId |-> 1, eventType |-> "STATE_TRANSITION",
      fromState |-> "SUBMITTED", toState |-> "NEEDS_INFO"],
     [submissionId |-> 1, eventType |-> "STATE_TRANSITION",
      fromState |-> "NEEDS_INFO", toState |-> "DRAFT"],
     [submissionId |-> 1, eventType |-> "STATE_TRANSITION",
      fromState |-> "DRAFT", toState |-> "VALIDATED"] >>

SeedRework ==
  /\ seeded = Len(ReworkPath)
  /\ events = ReworkPath
  /\ subs = << [organizationId |-> "orgA", jurisdictionId |-> "ATX",
                state |-> "VALIDATED", completenessScore |-> FullScore,
                submissionDetails |-> AllTrue,
                ruleResults |-> evalFrom(AllTrue, RuleSetOf("ATX"), 1),
                idempotencyKey |-> NoKey] >>
  /\ stateWrites = << Len(ReworkPath) >>
  /\ packets = SetToBag({1})

InitRework ==
  /\ req = EmptyBag
  /\ cache = [k \in Keys |-> NoResp]
  /\ lock = [k \in Keys |-> FALSE]
  /\ lockEnd = [k \in Keys |-> "none"]
  /\ lockOwner = [k \in Keys |-> 0]
  /\ \E n \in 0..MaxQueued :
       jobs = IF n = 0 THEN EmptyBag
              ELSE [j \in {[pc |-> "waiting", submissionId |-> 1]} |-> n]
  /\ overlap = {}
  /\ asked = NoAsk
  /\ reply = NoReply
  /\ answers = {}
  /\ ruleSets = SeededRuleSets
  /\ now = 0
  /\ evald = NoEval
  /\ Seed(1) \/ SeedRework

NextRework ==
  \/ WfPacket
  \/ TnGet
  \/ \E j \in JobsNow : JobRender(j)
  \/ \E j \in JobsNow : JobPacket(j)
  \/ \E j \in JobsNow : JobCommit(j)

SpecRework ==
  /\ InitRework
  /\ [][NextRework]_vars
  /\ WF_vars(\E j \in JobsNow : JobRender(j))
  /\ WF_vars(\E j \in JobsNow : JobPacket(j))
  /\ WF_vars(\E j \in JobsNow : JobCommit(j))

\* C22: no two requests under one idempotency key are at the same time between
\* their acquisition of the lock and the end of their save phase.
Holding(k) ==
  {rq \in Requests : rq.key = k /\ rq.lockKey /\ rq.pc # "done"}

MutualExclusionPerKey ==
  \A k \in Keys : \A a, b \in Holding(k) : a.rid = b.rid
LockGoneAfterSave ==
  [][\A rq \in Requests :
       (/\ rq.lockKey /\ rq.pc # "done"
        /\ \E after \in BagToSet(req') : after.rid = rq.rid /\ after.pc = "done")
         => ~lock'[rq.key]]_vars

LockGoneAfterSaveCase ==
  /\ \E rq \in Requests :
       /\ rq.pc = "done" /\ rq.lockKey /\ rq.storeError
       /\ Is2xx(rq.statusCode)
       /\ ~lock[rq.key] /\ cache[rq.key] = NoResp
  /\ \E rq \in Requests :
       rq.pc = "done" /\ rq.lockKey /\ rq.statusCode = 400 /\ ~lock[rq.key]
\* C25: a request whose cache read or lock acquisition is rejected by the
\* store is neither answered by the check nor held back: its next step is the
\* handler, and its save, having no lock of its own, writes nothing to the
\* cache and deletes no lock.
DegradeToNoDedup ==
  [][\A rq \in Requests : \A after \in BagToSet(req') :
       after.rid = rq.rid =>
         /\ (rq.pc \in {"get", "lock"} /\ ~rq.storeError /\ after.storeError)
               => /\ after.pc = "handler" /\ after.statusCode = 0
                  /\ ~after.lockKey
                  /\ UNCHANGED redisVars
         /\ (rq.pc = "send" /\ ~rq.lockKey /\ after.pc # "send")
               => after.pc = "done" /\ UNCHANGED redisVars]_vars

DegradeToNoDedupCase ==
  \E rq, other \in Requests :
    /\ rq.pc = "done" /\ rq.storeError /\ ~rq.lockKey /\ rq.ran
    /\ rq.statusCode = 201
    /\ other.key = rq.key /\ other.lockKey /\ other.pc = "handler"
    /\ lock[rq.key] /\ cache[rq.key] = NoResp
\* C26: a PATCH that succeeds re-scores the submission and leaves its state as
\* it was, DRAFT for a DRAFT submission, and appends no WorkflowEvent, also
\* when the new completenessScore is 1.
PatchKeepsState ==
  [][(reply'.op = "patch" /\ Is2xx(reply'.statusCode))
       => /\ Len(subs') = Len(subs)
          /\ \A id \in 1..Len(subs) : subs'[id].state = subs[id].state
          /\ subs'[reply'.body.id].completenessScore = reply'.body.score
          /\ UNCHANGED << events, stateWrites >>]_vars

PatchKeepsStateCase ==
  /\ reply.op = "patch" /\ reply.statusCode = 200
  /\ reply.body.score = FullScore
  /\ subs[reply.body.id].completenessScore = FullScore
  /\ subs[reply.body.id].state = "DRAFT"
  /\ events = << >>
\* C27: with lotArea > 0 and imperviousArea >= 0 both supplied the result of
\* ATX_IMPERVIOUS_COVER has passed = (imperviousArea / lotArea <= 0.45); with
\* either not supplied it is passed = false with the message for missing data.
ImperviousCover ==
  evald.status = "ATX_IMPERVIOUS_COVER" =>
    LET ctx == evald.context
        result == evald.results[1]
    IN  IF {"lotArea", "imperviousArea"} \subseteq DOMAIN ctx
        THEN ctx["lotArea"] > 0 =>
               result.passed = (100 * ctx["imperviousArea"] <= 45 * ctx["lotArea"])
        ELSE /\ ~result.passed
             /\ result.message = "Missing lot/impervious area data."
\* C28: no submission is ever in state POLLING, whatever create, PATCH,
\* transition and generate-packet requests and packet jobs have run.
PollingUnreachable ==
  /\ \A id \in 1..Len(subs) : subs[id].state # "POLLING"
  /\ \A i \in 1..Len(events) : events[i].toState # "POLLING"

\* a transition request was refused, for want of a path, on a SUBMITTED row
PollingUnreachableCase ==
  /\ reply.op = "transition" /\ reply.statusCode = 400
  /\ reply.body.kind = "INVALID_TRANSITION" /\ reply.body.state = "no path"
  /\ subs[reply.body.id].state = "SUBMITTED"
\* C29: a request of one tenant never receives a response that was produced
\* by handling a request of another tenant, also under a key the other used.
NoReplayAcrossTenants ==
  \A rq \in ServedFromCache : \A src \in ProducersOf(rq) : src.org = rq.org

\* C30: a cached response is replayed only to a request of the same operation
\* on the same submission id as the request that produced it: the key of a
\* create used again on a transition, PATCH or generate-packet request neither
\* returns the response of the create nor keeps the new operation from running.
NoReplayAcrossOperations ==
  \A rq \in ServedFromCache : \A src \in ProducersOf(rq) :
    src.op = rq.op /\ src.id = rq.id
\* C31: once a response is stored under a key, no later request replaces it
\* with a different response, also when a lock expires during a slow handler.
CacheWriteOnce ==
  [][\A k \in Keys : cache[k] # NoResp => cache'[k] = cache[k]]_vars
\* C32: the save phase of a request deletes the lock of its key only if the
\* entry stored is the one this request wrote: a request whose lock expired
\* during its handler never deletes the lock a later request has acquired.
ReleaseOwnLockOnly ==
  [][\A rq \in Requests : \A after \in BagToSet(req') :
       (/\ after.rid = rq.rid /\ rq.pc # "done" /\ after.pc = "done"
        /\ rq.key # NoKey /\ lock[rq.key] /\ ~lock'[rq.key])
         => lockOwner[rq.key] = rq.rid]_vars
\* C33: the save phase of a request that the check answered, from the cache or
\* with 409 because the lock was held, deletes no lock and writes no cache
\* entry.
ShortCircuitLeavesStore ==
  [][\A rq \in Requests : \A after \in BagToSet(req') :
       (after.rid = rq.rid /\ rq.pc = "send" /\ ~rq.ran /\ after.pc # "send")
         => after.pc = "done" /\ UNCHANGED << cache, lock >>]_vars

\* a request answered 409 has ended while the request holding the lock is in
\* its handler and the lock is in place
ShortCircuitLeavesStoreCase ==
  \E rq, holder \in Requests :
    /\ rq.pc = "done" /\ rq.statusCode = 409 /\ ~rq.ran
    /\ holder.key = rq.key /\ holder.lockKey /\ holder.pc = "handler"
    /\ lock[rq.key] /\ lockOwner[rq.key] = holder.rid
    /\ cache[rq.key] = NoResp
\* C34: a submission whose state is not DRAFT has completenessScore 1, however
\* PATCH requests interleave with transition requests and auto-validation.
ScoreStateInvariant ==
  \A id \in 1..Len(subs) :
    subs[id].state # "DRAFT" => subs[id].completenessScore = FullScore
\* C35: the WorkflowEvents of a submission, in creation order, form a chain:
\* the first leaves DRAFT, each leaves the state the one before it entered,
\* each is an edge of the transition table, and the last enters the persisted
\* state of the submission.
ChainOf(id) ==
  LET Of(event) == event.submissionId = id
  IN  SelectSeq(events, Of)

AuditChain ==
  \A id \in 1..Len(subs) :
    LET chain == ChainOf(id)
    IN  /\ chain # << >>
             => /\ chain[1].fromState = "DRAFT"
                /\ chain[Len(chain)].toState = subs[id].state
        /\ \A i \in 2..Len(chain) : chain[i].fromState = chain[i - 1].toState
        /\ \A i \in 1..Len(chain) :
             chain[i].toState \in ALLOWED_TRANSITIONS[chain[i].fromState]
\* C36: a submission becomes VALIDATED, at creation or on request, only if
\* every REQUIRED result of its evaluation passed, whatever the number of
\* REQUIRED rules: rounding the score to two decimals never makes 1 of an
\* evaluation with a failed REQUIRED rule.
ValidatedOnlyIfAllRequiredPass ==
  (evald.status = "scored" /\ asked.result)
    => \A i \in 1..Len(evald.results) :
         evald.results[i].severity = "REQUIRED" => evald.results[i].passed
\* C37: when a create request has ended with an error response, also one due
\* to the auto-validation that follows the insert, no PermitSubmission of
\* that request is persisted.
FailedCreateLeavesNothing ==
  \A rq \in Requests :
    (rq.op = "create" /\ rq.pc \in {"send", "done"} /\ rq.ran
       /\ rq.statusCode >= 400)
      => rq.id \notin 1..Len(subs)
\* C38: when the job of an accepted generate-packet request on a VALIDATED
\* submission has rendered its PDF, the job goes on to end with the
\* submission in PACKET_READY and a Packet recorded, also on a second round
\* through VALIDATED.
PacketJobCompletes ==
  (\E j \in JobsNow :
     j.pc = "packet" /\ subs[j.submissionId].state = "VALIDATED")
    ~> (subs[1].state = "PACKET_READY" /\ BagIn(1, packets))

\* C39: a submission in PACKET_READY, SUBMITTED, APPROVED or NEEDS_INFO has
\* a Packet record: PACKET_READY is entered only after the Packet exists.
ReadyPacketExists ==
  \A id \in 1..Len(subs) :
    subs[id].state \in {"PACKET_READY", "SUBMITTED", "APPROVED", "NEEDS_INFO"}
      => BagIn(id, packets)
====
